---- MODULE Spec2Model ----
(***************************************************************************)
(* The playout (jitter) buffer of the receive pipeline:                    *)
(* src/src/driver/tasks/udp_rx/playout_buffer.rs.                          *)
(*                                                                         *)
(* RTP sequence numbers are u16 and RTP timestamps are u32, both with      *)
(* wrapping arithmetic.  A timestamp is held as its two 16-bit halves      *)
(* [hi, lo] (value = hi * 2^16 + lo); all arithmetic on it is exact        *)
(* arithmetic modulo 2^32.                                                 *)
(***************************************************************************)
EXTENDS Integers, Sequences, FiniteSets, TLC

\* RtpTimestamp (Wrapping<u32>), as its high and low 16-bit halves.
RtpTimestamp == [hi : 0..65535, lo : 0..65535]

\* StoredPacket: the RTP header fields of the stored packet that the buffer reads.
StoredPacket == [seq : 0..65535, ts : RtpTimestamp]

VARIABLES
    buffer,                   \* VecDeque<Option<StoredPacket>>: <<>> = None, <<p>> = Some(p)
    playout_mode,             \* PlayoutMode
    next_seq,                 \* RtpSequence (u16)
    current_timestamp,        \* Option<RtpTimestamp>: <<>> = None, <<t>> = Some(t)
    consecutive_store_fails,  \* usize
    playout_buffer_length,    \* config.playout_buffer_length (target depth)
    last,                     \* history: the last call, its argument (store) or packet (fetch), its
                              \*          result, and whether it is a fetch right after a store that
                              \*          left the occupied length at or above the target depth
    pre,                      \* history: the fields of the buffer before the last call
    consumed,                 \* history: the non-Filling results so far, with the sequence number each consumed
    rejected_late,            \* history: packets a store discarded as late
    stored,                   \* history: sequence numbers placed in the buffer since the last desync reset
    plain,                    \* history: every store so far inserted its packet (none late, rejected
                              \*          or a desync reset), each with its nominal timestamp
    resync,                   \* history: packet placed by a desync store into an empty buffer,
                              \*          until the next non-Filling result
    withheld,                 \* history: packet a fetch pushed back to the front, while it is there
    stores                    \* history: number of store_packet calls so far

vars == <<buffer, playout_mode, next_seq, current_timestamp, consecutive_store_fails,
          playout_buffer_length, last, pre, consumed, rejected_late, stored, plain,
          resync, withheld, stores>>

(***************************************************************************)
(* Bounds of the model.                                                    *)
(***************************************************************************)
MaxStores == 3

(***************************************************************************)
(* Program constants.                                                      *)
(***************************************************************************)
\* crate::constants: samples per 20 ms frame of one channel at 48 kHz, frames per second.
MONO_FRAME_SIZE == 960
AUDIO_FRAME_RATE == 50

\* The hard ceiling on the slot index in store_packet.
MaxSlots == 64

U16 == 65536
I16Max == 32767
I32Max == 2147483647

Fill == "Fill"
Drain == "Drain"

None == <<>>
Some(x) == <<x>>

(***************************************************************************)
(* Wrapping counters.                                                      *)
(***************************************************************************)
\* `x as i16` for a u16 value x.
AsI16(x) == IF x >= 32768 THEN x - U16 ELSE x

\* (a - b).0 as i16 on RtpSequence (Wrapping<u16>).
SeqDiff(a, b) == AsI16((a - b) % U16)

\* a + n on a u16 sequence number.
SeqAdd(a, n) == (a + n) % U16

\* t + n on a u32 timestamp, 0 <= n < 2^31.
TsAdd(t, n) ==
    LET lo == t.lo + (n % U16)
        hi == t.hi + (n \div U16) + (lo \div U16)
    IN  [hi |-> hi % U16, lo |-> lo % U16]

\* (a - b).0 as i32 on RtpTimestamp (Wrapping<u32>).
TsDiff(a, b) ==
    LET borrow == IF a.lo < b.lo THEN 1 ELSE 0
        lo == a.lo - b.lo + borrow * U16
        hi == AsI16((a.hi - b.hi - borrow) % U16)
    IN  hi * U16 + lo

(***************************************************************************)
(* Thresholds.                                                             *)
(***************************************************************************)
\* i16::try_from(config.playout_buffer_length.get() * 5).unwrap_or(32)
err_threshold(depth) == IF depth * 5 <= I16Max THEN depth * 5 ELSE 32

\* i32::try_from(len * 5 * MONO_FRAME_SIZE).unwrap_or((AUDIO_FRAME_RATE * 2 * MONO_FRAME_SIZE) as i32)
skip_after(depth) ==
    IF depth <= I32Max \div (5 * MONO_FRAME_SIZE)
    THEN depth * 5 * MONO_FRAME_SIZE
    ELSE AUDIO_FRAME_RATE * 2 * MONO_FRAME_SIZE

\* reset_timeout: the packet's timestamp advanced by MONO_FRAME_SIZE * depth.
reset_timeout(packet, depth) == TsAdd(packet.ts, MONO_FRAME_SIZE * depth)

(***************************************************************************)
(* store_packet.                                                           *)
(***************************************************************************)
\* Mutant: the difference is taken without the cast to i16.
desired_index_unsigned(pkt_seq, ns) == (pkt_seq - ns) % U16

\* Mutant: a packet exactly half the ring away counts as ahead.
desired_index_tie_ahead(pkt_seq, ns) ==
    LET d == (pkt_seq - ns) % U16
    IN  IF d <= I16Max + 1 THEN d ELSE d - U16

\* (pkt_seq - self.next_seq).0 as i16
desired_index(pkt_seq, ns) == SeqDiff(pkt_seq, ns)

\* Mutant: the run of rejections must exceed err_threshold.
handling_desync_strict(buf, fails, depth, di) ==
    /\ (buf = <<>> \/ fails > err_threshold(depth))
    /\ di >= err_threshold(depth)

\* (buffer.is_empty() || consecutive_store_fails >= err_threshold) && desired_index >= err_threshold
handling_desync(buf, fails, depth, di) ==
    /\ (buf = <<>> \/ fails >= err_threshold(depth))
    /\ di >= err_threshold(depth)

\* Mutant: the ceiling test is off by one.
StoreArmOffByOne(di, hd) ==
    IF di < 0 THEN "late"
    ELSE IF ~hd /\ di > MaxSlots THEN "reject"
    ELSE IF hd THEN "desync"
    ELSE "insert"

\* The arm of the if / else if / else that store_packet takes.
StoreArm(di, hd) ==
    IF di < 0 THEN "late"
    ELSE IF ~hd /\ di >= MaxSlots THEN "reject"
    ELSE IF hd THEN "desync"
    ELSE "insert"

\* Mutant: the buffer grows one slot past the index.
PadToExtra(buf, index) ==
    IF Len(buf) > index + 1 THEN buf
    ELSE buf \o [i \in 1..(index + 2 - Len(buf)) |-> None]

\* while self.buffer.len() <= index { self.buffer.push_back(None) }
PadTo(buf, index) ==
    IF Len(buf) > index THEN buf
    ELSE buf \o [i \in 1..(index + 1 - Len(buf)) |-> None]

\* self.buffer[index] = Some(packet), on the padded buffer (index counts from 0).
SetSlot(buf, index, packet) == [PadTo(buf, index) EXCEPT ![index + 1] = Some(packet)]

\* The buffer after the dispatch.
StoreBuffer(buf, arm, di, packet) ==
    CASE arm = "desync" -> SetSlot(<<>>, 0, packet)
      [] arm = "insert" -> SetSlot(buf, di, packet)
      [] OTHER -> buf

\* Mutant: a desync reset leaves next_seq alone.
StoreNextSeqKeep(ns, arm, packet) == ns

\* next_seq after the dispatch.
StoreNextSeq(ns, arm, packet) == IF arm = "desync" THEN packet.seq ELSE ns

\* Mutant: a rejection at the ceiling is not counted.
StoreFailsNoCount(fails, arm) ==
    CASE arm \in {"late", "reject"} -> fails
      [] OTHER -> 0

\* consecutive_store_fails after the dispatch.
StoreFails(fails, arm) ==
    CASE arm = "late" -> fails
      [] arm = "reject" -> fails + 1
      [] OTHER -> 0

\* Mutant: Drain needs one slot more than the target depth.
StoreModeStrict(mode, buf, depth) == IF Len(buf) > depth THEN Drain ELSE mode

\* Mutant: a store that ends below the target depth sets the mode to Fill.
StoreModeToggle(mode, buf, depth) == IF Len(buf) >= depth THEN Drain ELSE Fill

\* Mutant: the mode becomes Drain only at exactly the target depth.
StoreModeExact(mode, buf, depth) == IF Len(buf) = depth THEN Drain ELSE mode

\* if self.buffer.len() >= config.playout_buffer_length.get() { Drain }
StoreMode(mode, buf, depth) == IF Len(buf) >= depth THEN Drain ELSE mode

\* if self.current_timestamp.is_none() { Some(reset_timeout(..)) }
StoreTimestamp(cur, packet, depth) ==
    IF cur = None THEN Some(reset_timeout(packet, depth)) ELSE cur

\* The fields of the PlayoutBuffer, as a record.
Fields ==
    [buffer |-> buffer,
     playout_mode |-> playout_mode,
     next_seq |-> next_seq,
     current_timestamp |-> current_timestamp,
     consecutive_store_fails |-> consecutive_store_fails,
     resync |-> resync,
     withheld |-> withheld]

store_packet(packet, is_nominal) ==
    LET depth == playout_buffer_length
        di == desired_index(packet.seq, next_seq)
        hd == handling_desync(buffer, consecutive_store_fails, depth, di)
        arm == StoreArm(di, hd)
        buf == StoreBuffer(buffer, arm, di, packet)
    IN  /\ stores' = stores + 1
        /\ current_timestamp' = StoreTimestamp(current_timestamp, packet, depth)
        /\ buffer' = buf
        /\ next_seq' = StoreNextSeq(next_seq, arm, packet)
        /\ consecutive_store_fails' = StoreFails(consecutive_store_fails, arm)
        /\ playout_mode' = StoreMode(playout_mode, buf, depth)
        /\ last' = [op |-> "store", pkt |-> Some(packet), out |-> arm, primed |-> FALSE]
        /\ pre' = Fields
        /\ rejected_late' = IF arm = "late" THEN rejected_late \cup {packet} ELSE rejected_late
        /\ stored' =
             CASE arm = "desync" -> {packet.seq}
               [] arm = "insert" -> stored \cup {packet.seq}
               [] OTHER -> stored
        /\ plain' = (plain /\ is_nominal /\ arm = "insert")
        /\ resync' =
             CASE arm = "desync" /\ buffer = <<>> -> Some([pkt |-> packet, replaced |-> FALSE])
               [] arm = "desync" /\ buffer # <<>> /\ resync # None ->
                    Some([resync[1] EXCEPT !.replaced = TRUE])
               [] arm = "insert" /\ di = 0 /\ resync # None /\ packet # resync[1].pkt ->
                    Some([resync[1] EXCEPT !.replaced = TRUE])
               [] OTHER -> resync
        /\ withheld' =
             CASE arm = "desync" -> None
               [] arm = "insert" /\ di = 0 /\ withheld # Some(packet) -> None
               [] OTHER -> withheld
        /\ UNCHANGED <<playout_buffer_length, consumed>>

\* The fields store_packet leaves when called on the fields f with the packet.
AfterStore(f, packet) ==
    LET depth == playout_buffer_length
        di == desired_index(packet.seq, f.next_seq)
        hd == handling_desync(f.buffer, f.consecutive_store_fails, depth, di)
        arm == StoreArm(di, hd)
        buf == StoreBuffer(f.buffer, arm, di, packet)
    IN  [buffer |-> buf,
         playout_mode |-> StoreMode(f.playout_mode, buf, depth),
         next_seq |-> StoreNextSeq(f.next_seq, arm, packet),
         current_timestamp |-> StoreTimestamp(f.current_timestamp, packet, depth),
         consecutive_store_fails |-> StoreFails(f.consecutive_store_fails, arm)]

(***************************************************************************)
(* fetch_packet.                                                           *)
(***************************************************************************)
\* The arm of the timestamp dispatch for a packet popped from the front.
FetchArm(ts_diff, sa) ==
    IF ts_diff >= 0 THEN "emit"
    ELSE IF ts_diff <= -sa THEN "skip"
    ELSE "withhold"

\* The arm of `match self.buffer.pop_front()`.
PopArm(buf, cur, depth) ==
    IF buf = <<>> THEN "empty"
    ELSE IF Head(buf) = None THEN "gap"
    ELSE IF cur = None THEN "panic"   \* current_timestamp.as_mut().unwrap()
    ELSE FetchArm(TsDiff(cur[1], Head(buf)[1].ts), skip_after(depth))

\* Mutant: a withheld packet is not pushed back.
FetchBufferDropWithheld(buf, arm) ==
    IF arm \in {"emit", "skip", "gap", "withhold"} THEN Tail(buf) ELSE buf

\* The buffer after the match: a withheld packet is pushed back to the front.
FetchBuffer(buf, arm) ==
    IF arm \in {"emit", "skip", "gap"} THEN Tail(buf) ELSE buf

\* Mutant: a gap slot does not advance next_seq.
FetchNextSeqGapStays(ns, buf, arm) ==
    CASE arm \in {"emit", "skip"} -> SeqAdd(Head(buf)[1].seq, 1)
      [] OTHER -> ns

\* next_seq after the match.
FetchNextSeq(ns, buf, arm) ==
    CASE arm \in {"emit", "skip"} -> SeqAdd(Head(buf)[1].seq, 1)
      [] arm = "gap" -> SeqAdd(ns, 1)
      [] OTHER -> ns

\* Mutant: the far-future arm does not move the cursor.
FetchCursorNoSnap(cur, buf, arm) == cur

\* The playout cursor after the match: only the far-future arm sets it.
FetchCursor(cur, buf, arm) == IF arm = "skip" THEN Some(Head(buf)[1].ts) ELSE cur

\* Mutant: the tail of fetch_packet does not advance the cursor.
FetchTimestampNoAdvance(cur, buf) == IF buf = <<>> THEN None ELSE cur

\* The tail of fetch_packet: an empty buffer clears the cursor, then an existing cursor advances.
FetchTimestamp(cur, buf) ==
    IF buf = <<>> THEN None
    ELSE IF cur = None THEN None
    ELSE Some(TsAdd(cur[1], MONO_FRAME_SIZE))

\* Mutant: a withheld packet does not revert the mode to Fill.
FetchModeKeepDrain(mode, buf, arm) == IF buf = <<>> THEN Fill ELSE mode

\* Mutant: an emptied buffer does not reset the mode to Fill.
FetchModeNoReset(mode, buf, arm) == IF arm = "withhold" THEN Fill ELSE mode

\* The mode after the match and the emptiness test.
FetchMode(mode, buf, arm) ==
    IF buf = <<>> THEN Fill
    ELSE IF arm = "withhold" THEN Fill
    ELSE mode

\* Mutant: a gap slot is reported as Filling.
FetchResultGapFilling(arm) ==
    CASE arm \in {"emit", "skip"} -> "Packet"
      [] OTHER -> "Filling"

\* The PacketLookup returned.
FetchResult(arm) ==
    CASE arm \in {"emit", "skip"} -> "Packet"
      [] arm = "gap" -> "MissedPacket"
      [] OTHER -> "Filling"

\* Mutant: fetch_packet does not return early in Fill mode.
FetchEarlyReturnNever(mode) == FALSE

\* if self.playout_mode == PlayoutMode::Fill { return PacketLookup::Filling; }
FetchEarlyReturn(mode) == mode = Fill

fetch_packet ==
    IF FetchEarlyReturn(playout_mode)
    THEN /\ last' = [op |-> "fetch", pkt |-> None, out |-> "Filling",
                     primed |-> (last.op = "store" /\ Len(buffer) >= playout_buffer_length)]
         /\ pre' = Fields
         /\ UNCHANGED <<buffer, playout_mode, next_seq, current_timestamp,
                        consecutive_store_fails, playout_buffer_length,
                        consumed, rejected_late, stored, plain, resync, withheld,
                        stores>>
    ELSE LET depth == playout_buffer_length
             arm == PopArm(buffer, current_timestamp, depth)
             buf == FetchBuffer(buffer, arm)
             out == FetchResult(arm)
         IN  /\ arm # "panic"
             /\ buffer' = buf
             /\ next_seq' = FetchNextSeq(next_seq, buffer, arm)
             /\ playout_mode' = FetchMode(playout_mode, buf, arm)
             /\ current_timestamp' =
                    FetchTimestamp(FetchCursor(current_timestamp, buffer, arm), buf)
             /\ last' = [op |-> "fetch",
                         pkt |-> IF out = "Packet" THEN Head(buffer) ELSE None,
                         out |-> out,
                         primed |-> (last.op = "store" /\ Len(buffer) >= depth)]
             /\ pre' = Fields
             /\ consumed' =
                    CASE out = "Packet" ->
                           Append(consumed, [seq |-> Head(buffer)[1].seq, out |-> out])
                      [] out = "MissedPacket" ->
                           Append(consumed, [seq |-> next_seq, out |-> out])
                      [] OTHER -> consumed
             /\ resync' = IF out = "Filling" THEN resync ELSE None
             /\ withheld' =
                    CASE arm = "withhold" -> Head(buffer)
                      [] out = "Packet" -> None
                      [] OTHER -> withheld
             /\ UNCHANGED <<consecutive_store_fails, playout_buffer_length,
                            rejected_late, stored, plain, stores>>

(***************************************************************************)
(* The packets that arrive, and the configurations.                        *)
(***************************************************************************)
\* PlayoutBuffer::new(capacity, next_seq): the first expected sequence number.
InitSeq == U16 - 1

\* Timestamp of the stream at sequence offset -1: two frames below the 32-bit wrap.
TsBase == [hi |-> 65535, lo |-> 65536 - 2 * MONO_FRAME_SIZE]

\* Sequence offsets from InitSeq of the packets that arrive with any of the timestamps.
SeqOffsets == {0, 1, 2, 1000}

\* Sequence offsets of the packets that arrive with their nominal timestamp only:
\* one behind the first expected, the ceiling, and two past a far jump.
EdgeOffsets == {-1, 64, 1002}

\* Sequence offsets around the last slot below the ceiling (nominal timestamps).
CeilingOffsets == {0, 62, 63, 64, 65}

\* Extra frames of silence in front of a packet: its timestamp runs that far ahead.
TsGaps == {0, 5, 40}

\* The packet at sequence offset off whose timestamp is g frames ahead of nominal.
Pkt(off, g) ==
    [seq |-> (InitSeq + off) % U16,
     ts |-> TsAdd(TsBase, MONO_FRAME_SIZE * (off + 1 + g))]

\* config.playout_buffer_length: the target depths configured.
Depths == {2, 3}

Init ==
    /\ buffer = <<>>
    /\ playout_mode = Fill
    /\ next_seq = InitSeq
    /\ current_timestamp = None
    /\ consecutive_store_fails = 0
    /\ playout_buffer_length \in Depths
    /\ last = [op |-> "new", pkt |-> None, out |-> "none", primed |-> FALSE]
    /\ pre = [buffer |-> <<>>, playout_mode |-> Fill, next_seq |-> InitSeq,
              current_timestamp |-> None, consecutive_store_fails |-> 0, resync |-> None,
              withheld |-> None]
    /\ consumed = <<>>
    /\ rejected_late = {}
    /\ stored = {}
    /\ plain = TRUE
    /\ resync = None
    /\ withheld = None
    /\ stores = 0

\* A packet arrives: any sequence offset with any timestamp gap, or an edge offset.
Store ==
    /\ stores < MaxStores
    /\ \/ \E off \in SeqOffsets, g \in TsGaps : store_packet(Pkt(off, g), g = 0)
       \/ \E off \in EdgeOffsets : store_packet(Pkt(off, 0), TRUE)

Fetch == fetch_packet

Next == Store \/ Fetch

Spec == Init /\ [][Next]_vars

\* Packets that arrive around the ceiling of MaxSlots slots.
StoreCeiling ==
    /\ stores < MaxStores
    /\ \E off \in CeilingOffsets : store_packet(Pkt(off, 0), TRUE)

NextCeiling == StoreCeiling \/ Fetch

SpecCeiling == Init /\ [][NextCeiling]_vars

\* Sequence offsets of the packets that arrive around the skip_after boundary.
BoundaryOffsets == {0, 1, 2}

\* Timestamp gaps, in frames, that put the packet after the first one a frame short of,
\* exactly at, and a frame past skip_after ahead of the cursor, for the target depth.
BoundaryGaps(depth) == {0, 6 * depth - 1, 6 * depth, 6 * depth + 1}

\* Packets that arrive with timestamps around the skip_after boundary.
StoreBoundary ==
    /\ stores < MaxStores
    /\ \E off \in BoundaryOffsets, g \in BoundaryGaps(playout_buffer_length) :
          store_packet(Pkt(off, g), g = 0)

NextBoundary == StoreBoundary \/ Fetch

SpecBoundary == Init /\ [][NextBoundary]_vars

\* Sequence offsets of a stream that starts in order and then jumps far ahead.
RejectionOffsets == {0, 1, 100}

\* Stores in a run long enough for err_threshold rejections in a row at every depth.
MaxRejectionStores == 17

\* Packets that arrive from the stream that jumps ahead.
StoreRejections ==
    /\ stores < MaxRejectionStores
    /\ \E off \in RejectionOffsets : store_packet(Pkt(off, 0), TRUE)

NextRejections == StoreRejections \/ Fetch

SpecRejections == Init /\ [][NextRejections]_vars

\* Sequence offsets next to the expected one and around half the ring of sequence numbers.
WrapOffsets == {0, 1, I16Max, I16Max + 1, I16Max + 2}

\* Packets that arrive from around half the ring away.
StoreWrap ==
    /\ stores < MaxStores
    /\ \E off \in WrapOffsets : store_packet(Pkt(off, 0), TRUE)

NextWrap == StoreWrap \/ Fetch

SpecWrap == Init /\ [][NextWrap]_vars

\* Sequence offsets of a stream with a missing packet and one packet far ahead.
OrderOffsets == {0, 1, 3, 70}

\* Timestamp gaps of that stream, in frames.
OrderGaps == {0, 5}

\* Packets that arrive from that stream.
StoreOrder ==
    /\ stores < MaxStores
    /\ \E off \in OrderOffsets, g \in OrderGaps : store_packet(Pkt(off, g), g = 0)

NextOrder == StoreOrder \/ Fetch

SpecOrder == Init /\ [][NextOrder]_vars

\* config.playout_buffer_length: a target depth above the ceiling of MaxSlots slots.
DeepDepths == {MaxSlots + 1}

\* PlayoutBuffer::new, configured with a target depth above the ceiling.
InitDeep ==
    /\ buffer = <<>>
    /\ playout_mode = Fill
    /\ next_seq = InitSeq
    /\ current_timestamp = None
    /\ consecutive_store_fails = 0
    /\ playout_buffer_length \in DeepDepths
    /\ last = [op |-> "new", pkt |-> None, out |-> "none", primed |-> FALSE]
    /\ pre = [buffer |-> <<>>, playout_mode |-> Fill, next_seq |-> InitSeq,
              current_timestamp |-> None, consecutive_store_fails |-> 0, resync |-> None,
              withheld |-> None]
    /\ consumed = <<>>
    /\ rejected_late = {}
    /\ stored = {}
    /\ plain = TRUE
    /\ resync = None
    /\ withheld = None
    /\ stores = 0

\* Sequence offsets up to the last slot below the ceiling, past it, and a far jump.
DeepOffsets == {0, 1, 62, 63, 64, 1000}

\* Packets that arrive at a buffer configured above the ceiling.
StoreDeep ==
    /\ stores < MaxStores
    /\ \E off \in DeepOffsets : store_packet(Pkt(off, 0), TRUE)

NextDeep == StoreDeep \/ Fetch

SpecDeep == InitDeep /\ [][NextDeep]_vars

(***************************************************************************)
(* Terms of the properties, computed from the fields before the last call  *)
(* (pre), the call (last) and the fields after it.                         *)
(***************************************************************************)
\* The signed 16-bit distance from sequence number b to sequence number a.
SignedSeqDistance(a, b) ==
    LET d == (a - b + U16) % U16
    IN  IF d < 32768 THEN d ELSE d - U16

TargetDepth == playout_buffer_length

\* The index the stored packet wanted, relative to next_seq before the store.
WantedIndex == SignedSeqDistance(last.pkt[1].seq, pre.next_seq)

\* The store's packet met the conditions of desync handling.
WasDesync ==
    /\ (pre.buffer = <<>> \/ pre.consecutive_store_fails >= TargetDepth * 5)
    /\ WantedIndex >= TargetDepth * 5

\* The last call was a fetch in Drain mode that found a packet in the front slot.
FetchedAtPacket ==
    /\ last.op = "fetch"
    /\ pre.playout_mode = Drain
    /\ pre.buffer # <<>>
    /\ Head(pre.buffer) # None
    /\ pre.current_timestamp # None

FrontPacket == Head(pre.buffer)[1]

\* ts_diff of that fetch: the cursor relative to the front packet's timestamp.
FrontTsDiff == TsDiff(pre.current_timestamp[1], FrontPacket.ts)

SkipAfter == TargetDepth * 5 * MONO_FRAME_SIZE

\* The front packet was slightly ahead of the cursor: 0 < -ts_diff < skip_after.
ShortGap == FetchedAtPacket /\ FrontTsDiff < 0 /\ -FrontTsDiff < SkipAfter

(***************************************************************************)
(* C1.  Monotonic emission: the sequence numbers consumed by the           *)
(* non-Filling results (a Packet consumes its own sequence number, a       *)
(* MissedPacket the sequence number that was due) are strictly increasing  *)
(* modulo 2^16, each ahead of the one before by the signed distance, and   *)
(* none is consumed twice.  Checked over every interleaving of stores and  *)
(* fetches of the packets that arrive here, which includes every run of    *)
(* stores followed by fetches that drain the buffer.  `consumed` only      *)
(* grows at its end, so comparing its last entry with every earlier one in *)
(* every reachable state compares every pair of entries.                   *)
(***************************************************************************)
C1_MonotonicEmission ==
    LET n == Len(consumed)
    IN  /\ n >= 2 => SignedSeqDistance(consumed[n].seq, consumed[n - 1].seq) > 0
        /\ \A i \in 1..(n - 1) : consumed[i].seq # consumed[n].seq

\* A drain that ran to the empty buffer, across the wrap of the sequence number.
C1_Witness ==
    /\ last.op = "fetch"
    /\ last.out = "Packet"
    /\ buffer = <<>>
    /\ Len(consumed) >= 3
    /\ consumed[1].seq = 65535
    /\ consumed[2].seq = 0

(***************************************************************************)
(* C2.  Depth invariant, as claimed: the fetch right after a store that    *)
(* left the occupied length at or above the target depth does not return   *)
(* Filling.                                                                *)
(***************************************************************************)
C2_DepthInvariant ==
    (last.op = "fetch" /\ last.primed) => last.out # "Filling"

(***************************************************************************)
(* C2, amended.  After such a store the mode is Drain, and the next fetch  *)
(* returns Filling exactly when the front slot holds a packet whose        *)
(* timestamp is ahead of the cursor by less than skip_after (the packet is *)
(* withheld); otherwise it returns Packet or MissedPacket.                 *)
(***************************************************************************)
C2_DepthInvariantAmended ==
    (last.op = "fetch" /\ last.primed) =>
        /\ pre.playout_mode = Drain
        /\ pre.buffer # <<>>
        /\ (last.out = "Filling") <=>
              (FetchedAtPacket /\ FrontTsDiff < 0 /\ FrontTsDiff > -SkipAfter)

C2_Witness ==
    /\ last.op = "fetch"
    /\ last.primed
    /\ Len(pre.buffer) = TargetDepth
    /\ last.out = "Filling"

(***************************************************************************)
(* C3.  Short-gap liveness, as claimed: a packet that a fetch withheld is  *)
(* returned as Packet by a fetch made once the cursor has caught up with   *)
(* its timestamp (ts_diff >= 0) while it is still the front slot.          *)
(***************************************************************************)
C3_WithheldEmittedOnceCaughtUp ==
    ( /\ last.op = "fetch"
      /\ pre.withheld # None
      /\ pre.buffer # <<>>
      /\ Head(pre.buffer) = pre.withheld
      /\ pre.current_timestamp # None
      /\ TsDiff(pre.current_timestamp[1], pre.withheld[1].ts) >= 0 )
    => (last.out = "Packet" /\ last.pkt = pre.withheld)

(***************************************************************************)
(* C4.  Short-gap withholding: a Drain-mode fetch that finds at the front  *)
(* a packet with 0 < -ts_diff < skip_after returns Filling, sets the mode  *)
(* to Fill, and leaves the buffer (the packet still in slot 0, the length  *)
(* unchanged) and next_seq as they were.                                   *)
(***************************************************************************)
C4_ShortGapWithholding ==
    ShortGap =>
        /\ last.out = "Filling"
        /\ playout_mode = Fill
        /\ buffer = pre.buffer
        /\ Head(buffer) = Some(FrontPacket)
        /\ next_seq = pre.next_seq

C4_Witness ==
    /\ ShortGap
    /\ Len(pre.buffer) >= 2
    /\ last.out = "Filling"

(***************************************************************************)
(* C5.  Desync recovery, as claimed: a store into the empty buffer of a    *)
(* packet with desired_index >= err_threshold sets next_seq to its         *)
(* sequence number, puts it in slot 0 and zeroes consecutive_store_fails;  *)
(* and that packet is the first non-Filling result of fetch.               *)
(***************************************************************************)
DesyncStoreEffect ==
    (last.op = "store" /\ pre.buffer = <<>> /\ WantedIndex >= TargetDepth * 5) =>
        /\ next_seq = last.pkt[1].seq
        /\ buffer = <<last.pkt>>
        /\ consecutive_store_fails = 0

C5_DesyncRecovery ==
    /\ DesyncStoreEffect
    /\ (last.op = "fetch" /\ last.out # "Filling" /\ pre.resync # None) =>
          (last.out = "Packet" /\ last.pkt = Some(pre.resync[1].pkt))

(***************************************************************************)
(* C5, amended.  The same effects of the store; the first non-Filling      *)
(* result of fetch afterwards is a Packet (never MissedPacket), and it is  *)
(* that packet unless a later store wrote slot 0 again before it was       *)
(* fetched (a packet with the same sequence number, or a further desync    *)
(* reset).                                                                 *)
(***************************************************************************)
C5_DesyncRecoveryAmended ==
    /\ DesyncStoreEffect
    /\ (last.op = "fetch" /\ last.out # "Filling" /\ pre.resync # None) =>
          /\ last.out = "Packet"
          /\ last.pkt = Head(pre.buffer)
          /\ ~pre.resync[1].replaced => last.pkt = Some(pre.resync[1].pkt)

\* The packet of a jump of 1000 sequence numbers comes out first.
C5_Witness ==
    /\ last.op = "fetch"
    /\ last.out = "Packet"
    /\ pre.resync # None
    /\ ~pre.resync[1].replaced
    /\ last.pkt = Some(pre.resync[1].pkt)
    /\ last.pkt[1].seq = (InitSeq + 1000) % U16

(***************************************************************************)
(* C6.  Late-packet rejection: a store of a packet with desired_index < 0  *)
(* leaves the buffer, next_seq and consecutive_store_fails unchanged, and  *)
(* no fetch ever returns a packet that a store discarded as late.          *)
(***************************************************************************)
C6_LatePacketRejection ==
    /\ (last.op = "store" /\ WantedIndex < 0) =>
          /\ buffer = pre.buffer
          /\ next_seq = pre.next_seq
          /\ consecutive_store_fails = pre.consecutive_store_fails
          /\ last.pkt[1] \in rejected_late
    /\ (last.op = "fetch" /\ last.out = "Packet") => last.pkt[1] \notin rejected_late

\* A late packet arrived while packets were buffered and others had been emitted.
C6_Witness ==
    /\ last.op = "store"
    /\ WantedIndex < 0
    /\ pre.buffer # <<>>
    /\ consumed # <<>>

(***************************************************************************)
(* C7.  Ceiling rejection: a store of a packet with desired_index >= 64    *)
(* that does not trigger desync handling leaves the buffer and next_seq    *)
(* unchanged and adds exactly 1 to consecutive_store_fails.                *)
(***************************************************************************)
C7_CeilingRejection ==
    (last.op = "store" /\ WantedIndex >= 64 /\ ~WasDesync) =>
        /\ buffer = pre.buffer
        /\ next_seq = pre.next_seq
        /\ consecutive_store_fails = pre.consecutive_store_fails + 1

\* A second rejection in a row.
C7_Witness ==
    /\ last.op = "store"
    /\ WantedIndex >= 64
    /\ ~WasDesync
    /\ consecutive_store_fails = 2

(***************************************************************************)
(* C8.  Bounded buffer: the buffer never holds more than 64 slots.         *)
(***************************************************************************)
C8_BoundedBuffer == Len(buffer) <= 64

\* The buffer is full: a packet sits in the last slot below the ceiling.
C8_Witness == Len(buffer) = 64 /\ buffer[64] # None

(***************************************************************************)
(* C9.  Far-future override, as claimed: a Drain-mode fetch that finds at  *)
(* the front a packet with ts_diff < -skip_after returns it as Packet,     *)
(* sets next_seq to its sequence number + 1, and leaves the cursor at the  *)
(* packet's timestamp.                                                     *)
(***************************************************************************)
FarFuture == FetchedAtPacket /\ FrontTsDiff < -SkipAfter

C9_FarFutureOverride ==
    FarFuture =>
        /\ last.out = "Packet"
        /\ last.pkt = Some(FrontPacket)
        /\ next_seq = (FrontPacket.seq + 1) % U16
        /\ current_timestamp = Some(FrontPacket.ts)

(***************************************************************************)
(* C9, amended.  The packet is returned and next_seq set as claimed; the   *)
(* cursor is set to the packet's timestamp and then, before the call       *)
(* returns, cleared if the buffer is now empty and advanced by one frame   *)
(* otherwise.                                                              *)
(***************************************************************************)
C9_FarFutureOverrideAmended ==
    FarFuture =>
        /\ last.out = "Packet"
        /\ last.pkt = Some(FrontPacket)
        /\ next_seq = (FrontPacket.seq + 1) % U16
        /\ current_timestamp =
              IF buffer = <<>> THEN None
              ELSE Some(TsAdd(FrontPacket.ts, MONO_FRAME_SIZE))

\* The cursor was snapped forward and more slots remain.
C9_Witness ==
    /\ FarFuture
    /\ last.out = "Packet"
    /\ buffer # <<>>
    /\ TsDiff(current_timestamp[1], pre.current_timestamp[1]) > SkipAfter

(***************************************************************************)
(* C10.  Gap handling: every non-Filling result consumes the sequence      *)
(* number that was due and advances next_seq by 1; it is Packet, carrying  *)
(* that sequence number, when a packet of that sequence number was stored  *)
(* and MissedPacket when none was; and while every store has inserted its  *)
(* packet at an offset from next_seq, with timestamps one frame apart per  *)
(* sequence number, a Drain-mode fetch never returns Filling, so the       *)
(* results come out one per fetch in sequence order.                       *)
(***************************************************************************)
C10_GapHandling ==
    /\ (last.op = "fetch" /\ last.out # "Filling") =>
          /\ next_seq = (pre.next_seq + 1) % U16
          /\ consumed[Len(consumed)] = [seq |-> pre.next_seq, out |-> last.out]
          /\ (last.out = "Packet") <=> (pre.next_seq \in stored)
          /\ (last.out = "Packet") => last.pkt[1].seq = pre.next_seq
    /\ (last.op = "fetch" /\ pre.playout_mode = Drain /\ plain) => last.out # "Filling"

\* Offsets {0, 2} with target depth 2: Packet, MissedPacket, Packet.
C10_Witness ==
    /\ TargetDepth = 2
    /\ plain
    /\ stores = 2
    /\ buffer = <<>>
    /\ consumed = << [seq |-> InitSeq, out |-> "Packet"],
                     [seq |-> (InitSeq + 1) % U16, out |-> "MissedPacket"],
                     [seq |-> (InitSeq + 2) % U16, out |-> "Packet"] >>

(***************************************************************************)
(* C11.  Cursor advance on every fetch, as claimed: whenever a cursor      *)
(* exists when fetch_packet is called, the call leaves it exactly one      *)
(* frame later, whatever the outcome and whatever the mode.                *)
(***************************************************************************)
C11_CursorAdvanceEveryFetch ==
    (last.op = "fetch" /\ pre.current_timestamp # None) =>
        current_timestamp = Some(TsAdd(pre.current_timestamp[1], MONO_FRAME_SIZE))

(***************************************************************************)
(* C11, amended.  A fetch made in Fill mode leaves the cursor unchanged.   *)
(* A fetch made in Drain mode clears the cursor when it leaves the buffer  *)
(* empty, and otherwise advances it by exactly one frame, whatever the     *)
(* outcome (Packet, MissedPacket, or the Filling of a withheld packet):    *)
(* from the front packet's timestamp when the far-future arm emitted it,   *)
(* from the cursor's own value in every other case.                        *)
(***************************************************************************)
C11_CursorAdvanceAmended ==
    (last.op = "fetch" /\ pre.current_timestamp # None) =>
        current_timestamp =
            IF pre.playout_mode = Fill THEN pre.current_timestamp
            ELSE IF buffer = <<>> THEN None
            ELSE IF FetchedAtPacket /\ FrontTsDiff <= -SkipAfter
                 THEN Some(TsAdd(FrontPacket.ts, MONO_FRAME_SIZE))
            ELSE Some(TsAdd(pre.current_timestamp[1], MONO_FRAME_SIZE))

\* A Drain-mode fetch withheld the front packet (Filling) and the cursor moved one frame.
C11_Witness ==
    /\ last.op = "fetch"
    /\ pre.playout_mode = Drain
    /\ last.out = "Filling"
    /\ buffer # <<>>
    /\ pre.current_timestamp # None
    /\ current_timestamp = Some(TsAdd(pre.current_timestamp[1], MONO_FRAME_SIZE))

(***************************************************************************)
(* C12.  Fetch in Fill mode is a no-op: a fetch made while playout_mode is *)
(* Fill returns Filling and leaves the buffer, playout_mode, next_seq,     *)
(* current_timestamp and consecutive_store_fails unchanged.                *)
(***************************************************************************)
C12_FillFetchNoOp ==
    (last.op = "fetch" /\ pre.playout_mode = Fill) =>
        /\ last.out = "Filling"
        /\ buffer = pre.buffer
        /\ playout_mode = Fill
        /\ next_seq = pre.next_seq
        /\ current_timestamp = pre.current_timestamp
        /\ consecutive_store_fails = pre.consecutive_store_fails

\* A fetch in Fill mode with a packet at the front and a cursor that has reached it.
C12_Witness ==
    /\ last.op = "fetch"
    /\ pre.playout_mode = Fill
    /\ pre.buffer # <<>>
    /\ Head(pre.buffer) # None
    /\ pre.current_timestamp # None
    /\ TsDiff(pre.current_timestamp[1], Head(pre.buffer)[1].ts) >= 0

(***************************************************************************)
(* C13.  Store changes the mode only after an insertion, as claimed: a     *)
(* store moves the mode from Fill to Drain only when it inserted its       *)
(* packet and the occupied length is then at or above the target depth; a  *)
(* store whose packet is discarded as late or rejected at the ceiling      *)
(* leaves the mode unchanged.                                              *)
(***************************************************************************)
\* The store's packet was discarded as late or rejected at the ceiling.
StoreDiscarded ==
    /\ last.op = "store"
    /\ (WantedIndex < 0 \/ (WantedIndex >= 64 /\ ~WasDesync))

C13_ModeChangeOnlyAfterInsertion ==
    /\ (last.op = "store" /\ pre.playout_mode = Fill /\ playout_mode = Drain) =>
          (~StoreDiscarded /\ Len(buffer) >= TargetDepth)
    /\ StoreDiscarded => playout_mode = pre.playout_mode

(***************************************************************************)
(* C13, amended.  Every store, whether it inserted its packet or discarded *)
(* it, ends by setting the mode to Drain when the occupied length is at or *)
(* above the target depth, and leaves the mode unchanged otherwise; a      *)
(* discarded packet leaves the buffer unchanged, so it moves the mode from *)
(* Fill to Drain exactly when the buffer already held that many slots.     *)
(***************************************************************************)
C13_ModeAfterStoreAmended ==
    /\ last.op = "store" =>
          playout_mode = IF Len(buffer) >= TargetDepth THEN Drain ELSE pre.playout_mode
    /\ StoreDiscarded =>
          /\ buffer = pre.buffer
          /\ (pre.playout_mode = Fill /\ playout_mode = Drain) <=>
                (pre.playout_mode = Fill /\ Len(pre.buffer) >= TargetDepth)

\* A late packet arrived in Fill mode after a withheld packet: the mode is Drain again.
C13_Witness ==
    /\ StoreDiscarded
    /\ WantedIndex < 0
    /\ pre.playout_mode = Fill
    /\ playout_mode = Drain
    /\ buffer = pre.buffer

(***************************************************************************)
(* C14.  Timestamp dispatch boundary, as claimed: a Drain-mode fetch that  *)
(* finds a packet at the front emits a packet ahead of the cursor only     *)
(* when ts_diff < -skip_after; for -skip_after <= ts_diff < 0, the packet  *)
(* exactly skip_after ahead included, it withholds the packet (Filling,    *)
(* buffer unchanged, mode Fill); for ts_diff >= 0 it emits the packet and  *)
(* the cursor is not set from the packet's timestamp.                      *)
(***************************************************************************)
C14_DispatchBoundary ==
    FetchedAtPacket =>
        /\ (last.out = "Packet" /\ FrontTsDiff < 0) => FrontTsDiff < -SkipAfter
        /\ (-SkipAfter <= FrontTsDiff /\ FrontTsDiff < 0) =>
              /\ last.out = "Filling"
              /\ buffer = pre.buffer
              /\ playout_mode = Fill
        /\ FrontTsDiff >= 0 =>
              /\ last.out = "Packet"
              /\ current_timestamp =
                    IF buffer = <<>> THEN None
                    ELSE Some(TsAdd(pre.current_timestamp[1], MONO_FRAME_SIZE))

\* The dispatch as the code has it (the boundary value emits): every other part of C14.
C14_DispatchElsewhere ==
    (FetchedAtPacket /\ FrontTsDiff # -SkipAfter) =>
        /\ (last.out = "Packet" /\ FrontTsDiff < 0) => FrontTsDiff < -SkipAfter
        /\ (-SkipAfter < FrontTsDiff /\ FrontTsDiff < 0) =>
              /\ last.out = "Filling"
              /\ buffer = pre.buffer
              /\ playout_mode = Fill
        /\ FrontTsDiff >= 0 =>
              /\ last.out = "Packet"
              /\ current_timestamp =
                    IF buffer = <<>> THEN None
                    ELSE Some(TsAdd(pre.current_timestamp[1], MONO_FRAME_SIZE))

\* The front packet was exactly skip_after ahead of the cursor, and was emitted.
C14_AtBoundary ==
    /\ FetchedAtPacket
    /\ FrontTsDiff = -SkipAfter
    /\ last.out = "Packet"

(***************************************************************************)
(* C15.  Recovery after a run of rejections: a store handles a desync      *)
(* (clears the buffer, sets next_seq to the packet's sequence number, puts *)
(* the packet in slot 0, zeroes consecutive_store_fails) exactly when (the *)
(* buffer is empty or consecutive_store_fails >= err_threshold) and        *)
(* desired_index >= err_threshold, with err_threshold = target_depth * 5;  *)
(* any other store leaves next_seq and every slot it does not write as     *)
(* they were.  consecutive_store_fails is zero after every insertion, so   *)
(* it counts the rejections since the last one: with a non-empty buffer,   *)
(* after err_threshold rejections in a row, the next store of a packet     *)
(* with desired_index >= err_threshold is accepted with those effects.     *)
(***************************************************************************)
ErrThreshold == TargetDepth * 5

\* The effects of desync handling on the fields.
DesyncEffects ==
    /\ buffer = <<last.pkt>>
    /\ next_seq = last.pkt[1].seq
    /\ consecutive_store_fails = 0

\* The store kept next_seq and every slot other than the one the packet wanted.
KeptSlots ==
    /\ next_seq = pre.next_seq
    /\ Len(buffer) >= Len(pre.buffer)
    /\ \A i \in 1..Len(pre.buffer) : i # WantedIndex + 1 => buffer[i] = pre.buffer[i]

C15_DesyncAfterRejections ==
    last.op = "store" =>
        /\ WasDesync => DesyncEffects
        /\ ~WasDesync => KeptSlots
        /\ (WasDesync \/ (0 <= WantedIndex /\ WantedIndex < 64)) => consecutive_store_fails = 0
        /\ ( /\ pre.buffer # <<>>
             /\ pre.consecutive_store_fails >= ErrThreshold
             /\ WantedIndex >= ErrThreshold ) => DesyncEffects

\* Two packets were buffered, exactly err_threshold stores were rejected, and the next
\* store cleared the buffer.
C15_Witness ==
    /\ last.op = "store"
    /\ Len(pre.buffer) = 2
    /\ pre.consecutive_store_fails = ErrThreshold
    /\ WantedIndex >= 64
    /\ DesyncEffects
    /\ stores = ErrThreshold + 3

(***************************************************************************)
(* C16.  Wrap-safe slot index: the slot a stored packet gets is the signed *)
(* 16-bit modular difference seq - next_seq.  With d the distance from     *)
(* next_seq forward to seq around the ring: a packet with d < 64 that does *)
(* not trigger desync handling lands in slot d (next_seq = 65535, seq = 0  *)
(* gives slot 1); a packet with d below half the ring (d < 32768) is not   *)
(* treated as behind: it is inserted, rejected at the ceiling (counted in  *)
(* consecutive_store_fails) or handled as a desync; a packet exactly half  *)
(* the ring away or further (d >= 32768) is discarded as late, with no     *)
(* field changed.                                                          *)
(***************************************************************************)
\* The distance from next_seq forward to the stored packet's sequence number.
ForwardDistance == (last.pkt[1].seq - pre.next_seq + U16) % U16

HalfRing == U16 \div 2

C16_WrapSafeIndex ==
    last.op = "store" =>
        /\ (ForwardDistance < 64 /\ ~WasDesync) =>
              /\ Len(buffer) > ForwardDistance
              /\ buffer[ForwardDistance + 1] = last.pkt
              /\ next_seq = pre.next_seq
        /\ (pre.next_seq = U16 - 1 /\ last.pkt[1].seq = 0) =>
              buffer[2] = last.pkt
        /\ ForwardDistance < HalfRing =>
              /\ last.out # "late"
              /\ \/ DesyncEffects
                 \/ /\ ForwardDistance < 64
                    /\ consecutive_store_fails = 0
                 \/ /\ ForwardDistance >= 64
                    /\ buffer = pre.buffer
                    /\ consecutive_store_fails = pre.consecutive_store_fails + 1
        /\ ForwardDistance >= HalfRing =>
              /\ last.out = "late"
              /\ buffer = pre.buffer
              /\ next_seq = pre.next_seq
              /\ consecutive_store_fails = pre.consecutive_store_fails

\* Sequence number 0 sits in slot 1 behind next_seq = 65535, and the packet exactly half
\* the ring away from next_seq has just been discarded.
C16_Witness ==
    /\ last.op = "store"
    /\ ForwardDistance = HalfRing
    /\ next_seq = U16 - 1
    /\ Len(buffer) = 2
    /\ buffer[2] # None
    /\ buffer[2][1].seq = 0
    /\ consecutive_store_fails = 0

(***************************************************************************)
(* C17.  Slot/sequence alignment: in every reachable state, every packet   *)
(* held in buffer slot i (counted from 0) has sequence number next_seq + i *)
(* modulo 2^16.                                                            *)
(***************************************************************************)
C17_SlotSequenceAlignment ==
    \A i \in 1..Len(buffer) :
        buffer[i] # None => buffer[i][1].seq = (next_seq + (i - 1)) % U16

\* After a desync reset moved next_seq, a fetch withheld the front packet and pushed it
\* back; another packet sits two slots behind it.
C17_Witness ==
    /\ last.op = "fetch"
    /\ pre.playout_mode = Drain
    /\ last.out = "Filling"
    /\ next_seq = (InitSeq + 1000) % U16
    /\ Len(buffer) = 3
    /\ buffer[1] # None
    /\ buffer[3] # None

(***************************************************************************)
(* C18.  Drain implies a primed buffer: in every reachable state,          *)
(* playout_mode = Drain implies that the buffer is non-empty and that      *)
(* current_timestamp is present; so a fetch that gets past the Fill check  *)
(* always pops a slot and finds a cursor to compare a packet with.         *)
(***************************************************************************)
C18_DrainImpliesPrimed ==
    /\ playout_mode = Drain => (buffer # <<>> /\ current_timestamp # None)
    /\ (last.op = "fetch" /\ pre.playout_mode = Drain) =>
          (pre.buffer # <<>> /\ pre.current_timestamp # None)

\* Still draining with a single slot left, after a fetch returned a packet.
C18_Witness ==
    /\ playout_mode = Drain
    /\ Len(buffer) = 1
    /\ last.op = "fetch"
    /\ last.out = "Packet"
    /\ pre.playout_mode = Drain

(***************************************************************************)
(* C19.  Arrival-order independence: from every reachable state, for two   *)
(* packets with distinct sequence numbers, both with 0 <= desired_index <  *)
(* 64 and neither triggering desync handling in either order, storing them *)
(* in either order leaves the same buffer, next_seq, playout_mode and      *)
(* consecutive_store_fails; current_timestamp differs between the orders   *)
(* only when it was absent before the first store, and is unchanged when   *)
(* it was present.  The stores are computed by AfterStore, which is what   *)
(* store_packet does to the fields in every step taken.                    *)
(***************************************************************************)
\* Slots, counted from next_seq, of the two packets stored in either order.
OrderIndexes == {0, 1, 2, 12, 63}

\* The packet for slot i of the current state, with a timestamp of its own.
OrderPacket(i) ==
    [seq |-> (next_seq + i) % U16, ts |-> TsAdd(TsBase, MONO_FRAME_SIZE * i)]

\* The fields of the program in the current state.
Now ==
    [buffer |-> buffer,
     playout_mode |-> playout_mode,
     next_seq |-> next_seq,
     current_timestamp |-> current_timestamp,
     consecutive_store_fails |-> consecutive_store_fails]

\* Storing the packet on the fields f would trigger desync handling.
WouldDesync(f, packet) ==
    /\ (f.buffer = <<>> \/ f.consecutive_store_fails >= TargetDepth * 5)
    /\ SignedSeqDistance(packet.seq, f.next_seq) >= TargetDepth * 5

\* Neither packet triggers desync handling, whichever is stored first.
NoDesyncEitherOrder(p, q) ==
    /\ ~WouldDesync(Now, p)
    /\ ~WouldDesync(AfterStore(Now, p), q)
    /\ ~WouldDesync(Now, q)
    /\ ~WouldDesync(AfterStore(Now, q), p)

\* The two orders agree on every field but the cursor.
SameButCursor(a, b) ==
    /\ a.buffer = b.buffer
    /\ a.next_seq = b.next_seq
    /\ a.playout_mode = b.playout_mode
    /\ a.consecutive_store_fails = b.consecutive_store_fails

C19_ArrivalOrderIndependence ==
    /\ last.op = "store" =>
          Now = AfterStore(pre, last.pkt[1])
    /\ \A i, j \in OrderIndexes :
          LET p == OrderPacket(i)
              q == OrderPacket(j)
              pq == AfterStore(AfterStore(Now, p), q)
              qp == AfterStore(AfterStore(Now, q), p)
          IN  (i < j /\ NoDesyncEitherOrder(p, q)) =>
                  /\ SameButCursor(pq, qp)
                  /\ pq.buffer[i + 1] = Some(p)
                  /\ pq.buffer[j + 1] = Some(q)
                  /\ current_timestamp # None =>
                        /\ pq.current_timestamp = current_timestamp
                        /\ qp.current_timestamp = current_timestamp

\* The buffer has been drained and the cursor cleared: slots 1 and 2 stored in either
\* order leave the same buffer in Drain mode, with cursors set from different packets.
C19_Witness ==
    LET p == OrderPacket(1)
        q == OrderPacket(2)
        pq == AfterStore(AfterStore(Now, p), q)
        qp == AfterStore(AfterStore(Now, q), p)
    IN  /\ consumed # <<>>
        /\ buffer = <<>>
        /\ current_timestamp = None
        /\ NoDesyncEitherOrder(p, q)
        /\ pq.buffer = <<None, Some(p), Some(q)>>
        /\ qp.buffer = pq.buffer
        /\ pq.playout_mode = Drain
        /\ qp.playout_mode = Drain
        /\ pq.current_timestamp # qp.current_timestamp

(***************************************************************************)
(* C20.  Depth above the ceiling never drains: with a target depth greater *)
(* than 64, the mode is Fill in every reachable state, every fetch returns *)
(* Filling, and no packet is ever emitted (nothing is consumed and every   *)
(* stored packet stays in the buffer until a desync reset clears it).      *)
(***************************************************************************)
C20_DeepNeverDrains ==
    TargetDepth > 64 =>
        /\ playout_mode = Fill
        /\ Len(buffer) < TargetDepth
        /\ last.op = "fetch" => (last.out = "Filling" /\ last.pkt = None /\ buffer = pre.buffer)
        /\ consumed = <<>>

\* All 64 slots are taken and a fetch still returned Filling.
C20_Witness ==
    /\ TargetDepth > 64
    /\ Len(buffer) = 64
    /\ buffer[1] # None
    /\ buffer[64] # None
    /\ last.op = "fetch"
    /\ last.out = "Filling"

====
